---- MODULE Spec2Model ----
(***************************************************************************)
(* The serverless handler of src/api/index.js as a state machine: the      *)
(* module-level Reddit token cache, the clock it reads, the process        *)
(* environment, and per request the position of the handler, the promises  *)
(* of the four API clients and the Gemini call.  Every action is one       *)
(* run-to-completion turn of the event loop: the arrival of a request or   *)
(* the arrival of one external response, with every continuation that the  *)
(* turn runs before the next await suspends.                               *)
(***************************************************************************)
EXTENDS Integers, Sequences, FiniteSets, TLC

\* redditToken  the module-level token cache (line 57)
\* now          what Date.now() reads
\* env          the names process.env has a value for
\* req          the handler's frame per request in flight
\* exchanged    history: the last successful token exchange, its time and token
VARIABLES redditToken, now, env, req, exchanged

vars == <<redditToken, now, env, req, exchanged>>

\* ---------------------------------------------------------------- bounds

MaxChannels == 2
MaxSubreddits == 2
MaxPeriods == 2
MaxRequests == 3

\* ------------------------------------------------------- program constants

CacheTTL == 50 * 60 * 1000

\* ------------------------------------------------------------- JS values

\* null / undefined, and a field that is not there
Null == "<null>"
\* a string holding a lone surrogate (JSON "\ud800"): encodeURIComponent throws on it
LoneSurrogate == "<lone-surrogate>"

Truthy(v) == v # Null /\ v # ""

WellFormed(s) == s # LoneSurrogate

\* Array.prototype.join: undefined and null elements render as the empty string.
\* Text is a sequence of non-empty pieces; the empty string is <<>>.
Piece(v) == IF v = Null \/ v = "" THEN <<>> ELSE <<v>>

RECURSIVE JoinFrom(_, _, _)
JoinFrom(parts, sep, i) ==
  IF i > Len(parts) THEN <<>>
  ELSE IF i = 1 THEN parts[1] \o JoinFrom(parts, sep, 2)
  ELSE <<sep>> \o parts[i] \o JoinFrom(parts, sep, i + 1)

Join(parts, sep) == JoinFrom(parts, sep, 1)

\* x || "N/A"
OrNA(text) == IF text = <<>> THEN <<"N/A">> ELSE text

\* ------------------------------------------------------ external responses

\* A response of a listing endpoint (video search, channel videos, subreddit
\* hot): kind "neterr" is a rejected fetch, "badjson" a body res.json() rejects,
\* "null" a body that parses to null, "noitems" an object without the list
\* field, "items" an object with it.  ok is response.ok.  An item has its
\* snippet (its data, for a post) or has none; title is the title field.
Item(has, title) == [has |-> has, title |-> title]

ListResponse(kind, ok, items) == [kind |-> kind, ok |-> ok, items |-> items]

ListResponses ==
  { ListResponse("neterr", TRUE, <<>>),
    ListResponse("badjson", TRUE, <<>>),
    ListResponse("null", TRUE, <<>>),
    ListResponse("noitems", TRUE, <<>>),
    ListResponse("noitems", FALSE, <<>>),
    ListResponse("items", TRUE, <<>>),
    ListResponse("items", TRUE, <<Item(TRUE, "t1")>>),
    ListResponse("items", FALSE, <<Item(TRUE, "t1")>>),
    ListResponse("items", TRUE, <<Item(TRUE, Null), Item(TRUE, "t2")>>),
    ListResponse("items", TRUE, <<Item(TRUE, "t1"), Item(FALSE, Null)>>) }

\* A response of the channel search: ids are the id.channelId of the items, in
\* order; "noid" is a first item without an id object.
ResolveResponse(kind, ids) == [kind |-> kind, ids |-> ids]

ResolveResponses ==
  { ResolveResponse("neterr", <<>>),
    ResolveResponse("badjson", <<>>),
    ResolveResponse("null", <<>>),
    ResolveResponse("noitems", <<>>),
    ResolveResponse("items", <<>>),
    ResolveResponse("noid", <<>>),
    ResolveResponse("items", <<"UC1">>),
    ResolveResponse("items", <<"UC1", "UC2">>) }

\* A response of the Reddit token endpoint: "object" carries access_token
\* (Null when the field is missing, "" when it is empty).
Tokens == {"tokA", "tokB"}

TokenResponse(kind, token) == [kind |-> kind, access_token |-> token]

TokenResponses ==
  { TokenResponse("neterr", Null),
    TokenResponse("badjson", Null),
    TokenResponse("null", Null),
    TokenResponse("object", Null),
    TokenResponse("object", "") }
  \cup { TokenResponse("object", t) : t \in Tokens }

\* A response of the Gemini endpoint: "nocandidates" is an envelope without
\* candidates[0].content.parts[0], "notext" one whose part has no text field.
GeminiResponse(kind, ok, text) == [kind |-> kind, ok |-> ok, text |-> text]

GeminiResponses ==
  { GeminiResponse("neterr", TRUE, Null),
    GeminiResponse("badjson", TRUE, Null),
    GeminiResponse("nocandidates", TRUE, Null),
    GeminiResponse("text", FALSE, "{strategy}"),
    GeminiResponse("notext", TRUE, Null),
    GeminiResponse("text", TRUE, "{strategy}") }

\* --------------------------------------------------------- the API clients

\* What an async client hands back: a value, or an exception.
Returned(v) == [threw |-> FALSE, val |-> v, message |-> Null]

Thrown(msg) == [threw |-> TRUE, val |-> <<>>, message |-> msg]

\* data.items?.map(item => ({ title: item.snippet.title })) || []
TitlesOf(r) ==
  IF r.kind = "null" THEN Thrown("TypeError")
  ELSE IF r.kind = "noitems" THEN Returned(<<>>)
  ELSE IF \E i \in 1..Len(r.items) : ~r.items[i].has THEN Thrown("TypeError")
  ELSE Returned([i \in 1..Len(r.items) |-> r.items[i].title])

\* searchYouTubeVideos, line 14: the URL is built before the try block.
searchYouTubeVideosUrl(query) ==
  IF WellFormed(query) THEN Returned(<<>>) ELSE Thrown("URI malformed")

\* searchYouTubeVideos, lines 15-23: the try block, given the response.
searchYouTubeVideos(r) ==
  IF r.kind = "neterr" THEN <<>>
  ELSE IF ~r.ok THEN <<>>
  ELSE IF r.kind = "badjson" THEN <<>>
  ELSE IF TitlesOf(r).threw THEN <<>>
  ELSE TitlesOf(r).val

\* A client that lists the videos of the last match of the channel search.
getChannelIdOfLastMatch(r) ==
  IF r.kind \in {"neterr", "badjson", "null", "noid"} THEN [found |-> FALSE, id |-> Null]
  ELSE IF r.kind = "noitems" \/ Len(r.ids) = 0 THEN [found |-> FALSE, id |-> Null]
  ELSE [found |-> TRUE, id |-> r.ids[Len(r.ids)]]

\* getChannelVideos, lines 36-43: the channel id of the first match, or Null
\* with found FALSE when the adapter returns [] without a second call.
getChannelId(r) ==
  IF r.kind \in {"neterr", "badjson", "null", "noid"} THEN [found |-> FALSE, id |-> Null]
  ELSE IF r.kind = "noitems" \/ Len(r.ids) = 0 THEN [found |-> FALSE, id |-> Null]
  ELSE [found |-> TRUE, id |-> r.ids[1]]

\* getChannelVideos, lines 46-53: the second call's response (no response.ok test).
getChannelVideos(r) ==
  IF r.kind \in {"neterr", "badjson"} THEN <<>>
  ELSE IF TitlesOf(r).threw THEN <<>>
  ELSE TitlesOf(r).val

\* getSubredditPosts, lines 114-120.
getSubredditPosts(r) ==
  IF r.kind \in {"neterr", "badjson"} THEN <<>>
  ELSE IF TitlesOf(r).threw THEN <<>>
  ELSE TitlesOf(r).val

\* A cache that answers with its token whatever the time.
CacheHitForever(cache, t) == Truthy(cache.value)

\* A cache that still answers in the millisecond its token expires.
CacheHitInclusive(cache, t) == Truthy(cache.value) /\ cache.expires >= t

\* getRedditAccessToken, line 66: the cache answers.
CacheHit(cache, t) == Truthy(cache.value) /\ cache.expires > t

\* getRedditAccessToken, lines 83-84: the token of the exchange, Null on failure.
ExchangedToken(r) ==
  IF r.kind \in {"neterr", "badjson", "null"} THEN Null
  ELSE IF ~Truthy(r.access_token) THEN Null
  ELSE r.access_token

\* An exchange whose failure empties the cache.
CacheAfterDropsOnFailure(cache, r, t) ==
  IF ExchangedToken(r) = Null THEN [value |-> Null, expires |-> 0]
  ELSE [value |-> ExchangedToken(r), expires |-> t + CacheTTL]

\* getRedditAccessToken, lines 87-95: the cache after the exchange answered.
CacheAfter(cache, r, t) ==
  IF ExchangedToken(r) = Null THEN cache
  ELSE [value |-> ExchangedToken(r), expires |-> t + CacheTTL]

\* callGeminiAPI, lines 142-151.
callGeminiAPI(r) ==
  IF r.kind = "neterr" \/ ~r.ok \/ r.kind \in {"badjson", "nocandidates"}
  THEN [threw |-> TRUE, text |-> Null,
        message |-> "Failed to get a valid response from the Gemini API."]
  ELSE [threw |-> FALSE, text |-> r.text, message |-> Null]

\* ------------------------------------------------------------ the request

EnvKeys == {"YOUTUBE_API_KEY", "REDDIT_CLIENT_ID", "REDDIT_CLIENT_SECRET", "GEMINI_API_KEY"}

Methods == {"POST", "OPTIONS", "GET"}

\* A JSON value in an array position: an array with its items, or something else.
Array(items) == [isArray |-> TRUE, items |-> items]

NotArray == [isArray |-> FALSE, items |-> <<>>]

Body(a, g, c, s) ==
  [audience |-> a, goal |-> g, competitorYouTubeChannels |-> c, relevantSubreddits |-> s]

\* req.body || {}
NoBody == Body(Null, Null, NotArray, NotArray)

ChannelNames == <<"chA", "chB", "chC", "chD">>

SubredditNames == <<"subA", "subB", "subC", "subD">>

ChannelLists ==
  { Array(SubSeq(ChannelNames, 1, n)) : n \in 0..MaxChannels }
  \cup { Array(<<LoneSurrogate>>), NotArray }

SubredditLists ==
  { Array(SubSeq(SubredditNames, 1, n)) : n \in 0..MaxSubreddits } \cup { NotArray }

Bodies ==
  { Body(a, g, c, s) : a \in {Null, "", "parents", LoneSurrogate}, g \in {Null, "grow"},
                       c \in ChannelLists, s \in SubredditLists }

\* A validation that forgets the goal.
ValidBodyIgnoresGoal(b) ==
  /\ Truthy(b.audience)
  /\ b.competitorYouTubeChannels.isArray
  /\ b.relevantSubreddits.isArray

\* line 174
ValidBody(b) ==
  /\ Truthy(b.audience)
  /\ Truthy(b.goal)
  /\ b.competitorYouTubeChannels.isArray
  /\ b.relevantSubreddits.isArray

\* An environment check that forgets the Gemini key.
ConfiguredWithoutGemini(e) == (EnvKeys \ {"GEMINI_API_KEY"}) \subseteq e

\* line 179
Configured(e) == EnvKeys \subseteq e

\* The calls a request has issued so far, per endpoint.
NoCalls == [search |-> 0, resolve |-> 0, list |-> 0, token |-> 0, hot |-> 0, gemini |-> 0]

NoResponse == [status |-> 0, body |-> Null, error |-> Null, details |-> Null]

Response(status, body, error, details) ==
  [status |-> status, body |-> body, error |-> error, details |-> details]

NoPrompt == [audience |-> Null, goal |-> Null, top |-> <<>>, competitor |-> <<>>, reddit |-> <<>>]

\* One element of the array a Promise.all resolves to: not yet settled, or the
\* value { name, titles } its promise resolved with.
Unsettled == [set |-> FALSE, name |-> Null, titles |-> <<>>]

Entry(name, titles) == [set |-> TRUE, name |-> name, titles |-> titles]

\* A gathering that keeps the values in the order they arrive.
SettleInArrivalOrder(results, i, entry) ==
  LET free == { k \in 1..Len(results) : ~results[k].set } IN
  IF free = {} THEN results
  ELSE [results EXCEPT ![CHOOSE k \in free : \A l \in free : k <= l] = entry]

\* Promise.all: the value of the i-th promise is the i-th element of the result.
Settle(results, i, entry) == [results EXCEPT ![i] = entry]

AllSettled(results) == \A i \in 1..Len(results) : results[i].set

\* The handler's frame for one request.
\*   at       Date.now() when the request arrived
\*   pc       where the handler is: "idle", "collecting" (await at line 187),
\*            "generating" (await at line 238), "done" (a response was sent)
\*   top      the promise of searchYouTubeVideos
\*   chans    per channel, where getChannelVideos is; competitor is the array
\*            of the inner Promise.all of line 189
\*   tok      the promise of getRedditAccessToken
\*   subs     per subreddit, where getSubredditPosts is; reddit is the value of
\*            the third element of line 187: "none" until the token is known,
\*            "skipped" for [], "launched" for the inner Promise.all of line 191
IdleFrame ==
  [pc |-> "idle", at |-> 0, method |-> Null, body |-> NoBody,
   top |-> [st |-> "none", val |-> <<>>],
   chans |-> <<>>, competitor |-> <<>>,
   tok |-> [st |-> "none", val |-> Null],
   subs |-> <<>>, redditSt |-> "none", reddit |-> <<>>,
   gen |-> [st |-> "none", prompt |-> NoPrompt],
   resp |-> NoResponse, calls |-> NoCalls]

\* No call of the frame is outstanding.
Quiescent(f) ==
  /\ f.top.st # "pending"
  /\ \A i \in 1..Len(f.chans) : f.chans[i].st = "done"
  /\ f.tok.st # "pending"
  /\ \A j \in 1..Len(f.subs) : f.subs[j] = "done"
  /\ f.gen.st # "pending"

\* A join that waits for the video search and the channels only.
AllResolvedButReddit(f) ==
  /\ f.top.st = "done"
  /\ AllSettled(f.competitor)

\* line 187: every promise handed to the outer Promise.all has resolved.
AllResolved(f) ==
  /\ f.top.st = "done"
  /\ AllSettled(f.competitor)
  /\ f.redditSt \in {"skipped", "launched"}
  /\ AllSettled(f.reddit)

\* ---------------------------------------------------- prompt construction

\* line 198
topVideoTitles(topVideos) ==
  Join([i \in 1..Len(topVideos) |-> Piece(topVideos[i])], ", ")

\* lines 199 and 200: one group, "<name>: <titles>".
Group(prefix, e) ==
  prefix \o <<e.name, ": ">> \o Join([i \in 1..Len(e.titles) |-> Piece(e.titles[i])], ", ")

\* line 199
competitorVideoTitles(data) ==
  Join([i \in 1..Len(data) |-> Group(<<>>, data[i])], " | ")

\* line 200
redditPostTitles(data) ==
  Join([i \in 1..Len(data) |-> Group(<<"r/">>, data[i])], " | ")

\* lines 202-233: the parts of the master prompt that vary.
masterPrompt(f) ==
  [audience |-> f.body.audience,
   goal |-> f.body.goal,
   top |-> OrNA(topVideoTitles(f.top.val)),
   competitor |-> OrNA(competitorVideoTitles(f.competitor)),
   reddit |-> OrNA(redditPostTitles(f.reddit))]

\* Once the handler has returned, the values its promises resolved with are
\* unreachable; once nothing of the request is outstanding either, what stays
\* is what the request was, the token it was given, the calls it made and its
\* response.
Retire(f) ==
  IF f.pc # "done" THEN f
  ELSE IF Quiescent(f)
  THEN [IdleFrame EXCEPT !.pc = "done", !.at = f.at, !.method = f.method, !.body = f.body,
                         !.tok = f.tok, !.gen.st = f.gen.st,
                         !.resp = f.resp, !.calls = f.calls]
  ELSE [f EXCEPT !.top.val = <<>>,
                 !.competitor = [i \in 1..Len(f.competitor) |-> Unsettled],
                 !.reddit = [j \in 1..Len(f.reddit) |-> Unsettled],
                 !.gen.prompt = NoPrompt]

\* lines 187-238: once the outer Promise.all resolves, the handler builds the
\* prompt and calls Gemini in the same turn.
Resume(f) ==
  IF f.pc = "collecting" /\ AllResolved(f)
  THEN [f EXCEPT !.pc = "generating",
                 !.gen = [st |-> "pending", prompt |-> masterPrompt(f)],
                 !.calls.gemini = @ + 1]
  ELSE Retire(f)

\* ------------------------------------------------------------ the actions

Slots == 1..MaxRequests

Init ==
  /\ redditToken = [value |-> Null, expires |-> 0]
  /\ now = 0
  /\ env \in {EnvKeys} \cup { EnvKeys \ {k} : k \in EnvKeys }
  /\ req = [r \in Slots |-> IdleFrame]
  /\ exchanged = [at |-> 0, token |-> Null]

\* lines 187-193, the synchronous part: the three branches are started.
\* searchYouTubeVideos throws at line 14 for a query encodeURIComponent
\* rejects; getChannelVideos catches the same at line 50; getRedditAccessToken
\* answers from the cache or starts the exchange.
Launch(f, cache, t) ==
  LET channels == f.body.competitorYouTubeChannels.items
      subreddits == f.body.relevantSubreddits.items
      query == IF WellFormed(f.body.audience) /\ WellFormed(f.body.goal)
               THEN "query" ELSE LoneSurrogate
      url == searchYouTubeVideosUrl(query)
      hit == CacheHit(cache, t)
      started == { i \in 1..Len(channels) : WellFormed(channels[i]) }
  IN [f EXCEPT
        !.top = IF url.threw THEN [st |-> "rejected", val |-> <<>>]
                ELSE [st |-> "pending", val |-> <<>>],
        !.chans = [i \in 1..Len(channels) |->
                     IF i \in started THEN [st |-> "resolving", channelId |-> Null]
                     ELSE [st |-> "done", channelId |-> Null]],
        !.competitor = [i \in 1..Len(channels) |->
                          IF i \in started THEN Unsettled ELSE Entry(channels[i], <<>>)],
        !.tok = IF hit THEN [st |-> "done", val |-> cache.value]
                ELSE [st |-> "pending", val |-> Null],
        !.subs = IF hit THEN [j \in 1..Len(subreddits) |-> "pending"] ELSE <<>>,
        !.redditSt = IF hit THEN "launched" ELSE "none",
        !.reddit = IF hit THEN [j \in 1..Len(subreddits) |-> Unsettled] ELSE <<>>,
        !.calls = [NoCalls EXCEPT
                     !.search = IF url.threw THEN 0 ELSE 1,
                     !.resolve = Cardinality(started),
                     !.token = IF hit THEN 0 ELSE 1,
                     !.hot = IF hit THEN Len(subreddits) ELSE 0]]

\* A handler that lets every method through to the POST path.
AnyMethodIsPost(m) == TRUE

\* line 166: req.method !== 'POST' is answered 405.
IsPost(m) == m = "POST"

\* lines 156-193 and 244-247: a request arrives and the handler runs to its
\* first await, or to the response it sends before any. The body is read at
\* line 171, after the method checks.
Handle(m, b, e, cache, t) ==
  LET f == [IdleFrame EXCEPT !.at = t, !.method = m,
                             !.body = IF m # "OPTIONS" /\ IsPost(m) THEN b ELSE NoBody] IN
  IF m = "OPTIONS" THEN
    [f EXCEPT !.pc = "done", !.resp = Response(204, Null, Null, Null)]
  ELSE IF ~IsPost(m) THEN
    [f EXCEPT !.pc = "done", !.resp = Response(405, Null, "Method Not Allowed", Null)]
  ELSE IF ~ValidBody(b) THEN
    [f EXCEPT !.pc = "done",
              !.resp = Response(400, Null,
                 "Invalid request body. Ensure all required fields are present.", Null)]
  ELSE IF ~Configured(e) THEN
    [f EXCEPT !.pc = "done",
              !.resp = Response(500, Null, "Server configuration error.", Null)]
  ELSE
    LET g == Launch(f, cache, t) IN
    IF g.top.st = "rejected"
    THEN Retire([g EXCEPT !.pc = "done",
                   !.resp = Response(500, Null, "An internal server error occurred.",
                                     searchYouTubeVideosUrl(LoneSurrogate).message)])
    ELSE Resume([g EXCEPT !.pc = "collecting"])

Request(r, m, b) ==
  /\ req[r].pc \in {"idle", "done"}
  /\ Quiescent(req[r])
  /\ req' = [req EXCEPT ![r] = Handle(m, b, env, redditToken, now)]
  /\ UNCHANGED <<redditToken, now, env, exchanged>>

\* lines 16-23: the video search answers.
SearchAnswered(f, o) ==
  [f EXCEPT !.top = [st |-> "done", val |-> searchYouTubeVideos(o)]]

SearchReturns(r, o) ==
  /\ req[r].top.st = "pending"
  /\ req' = [req EXCEPT ![r] = Resume(SearchAnswered(@, o))]
  /\ UNCHANGED <<redditToken, now, env, exchanged>>

\* A channel search whose failure empties the lists of all the channels, as
\* one try around the whole Promise.all of line 189 would.
ChannelResolvedOrAllFail(f, i, o) ==
  LET c == getChannelId(o)
      channels == f.body.competitorYouTubeChannels.items IN
  IF c.found
  THEN [f EXCEPT !.chans[i] = [st |-> "listing", channelId |-> c.id],
                 !.calls.list = @ + 1]
  ELSE [f EXCEPT !.chans = [k \in 1..Len(channels) |-> [st |-> "done", channelId |-> Null]],
                 !.competitor = [k \in 1..Len(channels) |-> Entry(channels[k], <<>>)]]

\* lines 37-47: the channel search answers; the videos call follows, or [].
ChannelResolved(f, i, o) ==
  LET c == getChannelId(o) IN
  IF c.found
  THEN [f EXCEPT !.chans[i] = [st |-> "listing", channelId |-> c.id],
                 !.calls.list = @ + 1]
  ELSE [f EXCEPT !.chans[i] = [st |-> "done", channelId |-> Null],
                 !.competitor = Settle(@, i,
                    Entry(f.body.competitorYouTubeChannels.items[i], <<>>))]

ResolveReturns(r, i, o) ==
  /\ i \in 1..Len(req[r].chans)
  /\ req[r].chans[i].st = "resolving"
  /\ req' = [req EXCEPT ![r] = Resume(ChannelResolved(@, i, o))]
  /\ UNCHANGED <<redditToken, now, env, exchanged>>

\* lines 47-53 and 189: the channel's videos answer.
VideosListed(f, i, o) ==
  [f EXCEPT !.chans[i].st = "done",
            !.competitor = Settle(@, i,
               Entry(f.body.competitorYouTubeChannels.items[i], getChannelVideos(o)))]

ListReturns(r, i, o) ==
  /\ i \in 1..Len(req[r].chans)
  /\ req[r].chans[i].st = "listing"
  /\ req' = [req EXCEPT ![r] = Resume(VideosListed(@, i, o))]
  /\ UNCHANGED <<redditToken, now, env, exchanged>>

\* A handler that asks for the token once more when the exchange failed.
TokenKnownRetries(f, token) ==
  LET subreddits == f.body.relevantSubreddits.items IN
  IF Truthy(token)
  THEN [f EXCEPT !.tok = [st |-> "done", val |-> token],
                 !.subs = [j \in 1..Len(subreddits) |-> "pending"],
                 !.redditSt = "launched",
                 !.reddit = [j \in 1..Len(subreddits) |-> Unsettled],
                 !.calls.hot = @ + Len(subreddits)]
  ELSE IF f.calls.token < 2
  THEN [f EXCEPT !.calls.token = @ + 1]
  ELSE [f EXCEPT !.tok = [st |-> "done", val |-> Null],
                 !.redditSt = "skipped"]

\* lines 190-192: what the handler does with the token.
TokenKnown(f, token) ==
  LET subreddits == f.body.relevantSubreddits.items IN
  IF Truthy(token)
  THEN [f EXCEPT !.tok = [st |-> "done", val |-> token],
                 !.subs = [j \in 1..Len(subreddits) |-> "pending"],
                 !.redditSt = "launched",
                 !.reddit = [j \in 1..Len(subreddits) |-> Unsettled],
                 !.calls.hot = @ + Len(subreddits)]
  ELSE [f EXCEPT !.tok = [st |-> "done", val |-> Null],
                 !.redditSt = "skipped"]

\* lines 83-95: the token exchange answers.
TokenReturns(r, o) ==
  /\ req[r].tok.st = "pending"
  /\ redditToken' = CacheAfter(redditToken, o, now)
  /\ req' = [req EXCEPT ![r] = Resume(TokenKnown(@, ExchangedToken(o)))]
  /\ exchanged' = IF ExchangedToken(o) = Null THEN exchanged
                  ELSE [at |-> now, token |-> ExchangedToken(o)]
  /\ UNCHANGED <<now, env>>

\* lines 115-120 and 191: a subreddit's hot listing answers.
PostsListed(f, j, o) ==
  [f EXCEPT !.subs[j] = "done",
            !.reddit = Settle(@, j,
               Entry(f.body.relevantSubreddits.items[j], getSubredditPosts(o)))]

HotReturns(r, j, o) ==
  /\ j \in 1..Len(req[r].subs)
  /\ req[r].subs[j] = "pending"
  /\ req' = [req EXCEPT ![r] = Resume(PostsListed(@, j, o))]
  /\ UNCHANGED <<redditToken, now, env, exchanged>>

\* lines 238-247: Gemini answers and the response is sent.
Respond(f, o) ==
  LET g == callGeminiAPI(o) IN
  IF g.threw
  THEN [f EXCEPT !.pc = "done", !.gen.st = "done",
                 !.resp = Response(500, Null, "An internal server error occurred.", g.message)]
  ELSE [f EXCEPT !.pc = "done", !.gen.st = "done",
                 !.resp = Response(200, g.text, Null, Null)]

GeminiReturns(r, o) ==
  /\ req[r].gen.st = "pending"
  /\ req' = [req EXCEPT ![r] = Retire(Respond(@, o))]
  /\ UNCHANGED <<redditToken, now, env, exchanged>>

\* Date.now() moves on, to the last millisecond of a cache period or the first
\* of the next.
Instants == { k * CacheTTL - 1 : k \in 1..MaxPeriods } \cup { k * CacheTTL : k \in 1..MaxPeriods }

Tick(t) ==
  /\ t > now
  /\ now' = t
  /\ UNCHANGED <<redditToken, env, req, exchanged>>

\* The exchanges that answer with one and the same token.
OneTokenResponses == { o \in TokenResponses : o.access_token # "tokB" }

\* What a request of another method than POST may carry as its body.
UnreadBodies == {NoBody, Body("parents", "grow", Array(<<"chA">>), Array(<<"subA">>))}

\* One request at a time, at one reading of the clock.
Next ==
  \/ \E b \in Bodies : Request(1, "POST", b)
  \/ \E m \in Methods \ {"POST"}, b \in UnreadBodies : Request(1, m, b)
  \/ \E o \in ListResponses : SearchReturns(1, o)
  \/ \E i \in 1..MaxChannels, o \in ResolveResponses : ResolveReturns(1, i, o)
  \/ \E i \in 1..MaxChannels, o \in ListResponses : ListReturns(1, i, o)
  \/ \E o \in OneTokenResponses : TokenReturns(1, o)
  \/ \E j \in 1..MaxSubreddits, o \in ListResponses : HotReturns(1, j, o)
  \/ \E o \in GeminiResponses : GeminiReturns(1, o)

Spec == Init /\ [][Next]_vars

\* The requests of the clock's specification: no channels, at most one subreddit.
ClockBodies ==
  { Body("parents", "grow", Array(<<>>), Array(SubSeq(SubredditNames, 1, n))) : n \in 0..1 }

\* One request at a time, while the clock moves and the exchange hands out
\* either token.
NextClock ==
  \/ \E b \in ClockBodies : Request(1, "POST", b)
  \/ \E o \in ListResponses : SearchReturns(1, o)
  \/ \E o \in TokenResponses : TokenReturns(1, o)
  \/ \E o \in ListResponses : HotReturns(1, 1, o)
  \/ \E o \in GeminiResponses : GeminiReturns(1, o)
  \/ \E t \in Instants : Tick(t)

SpecClock == Init /\ [][NextClock]_vars

\* Requests that overlap: the platform runs the handler for a request while
\* earlier ones wait for their calls, all on the one redditToken of line 57.
RaceBody == Body("parents", "grow", Array(<<>>), Array(<<>>))

RaceListResponses == {ListResponse("ok", TRUE, <<Item(TRUE, "t1")>>)}

RaceGeminiResponses == { o \in GeminiResponses : o.kind \in {"neterr", "text"} /\ o.ok }

NextRace ==
  \/ \E r \in Slots : Request(r, "POST", RaceBody)
  \/ \E r \in Slots, o \in RaceListResponses : SearchReturns(r, o)
  \/ \E r \in Slots, o \in OneTokenResponses : TokenReturns(r, o)
  \/ \E r \in Slots, o \in RaceGeminiResponses : GeminiReturns(r, o)

SpecRace == Init /\ [][NextRace]_vars

\* Two runs of one request, in slots 1 and 2: the request arrives in both in
\* the same state of the cache and the clock, and every call the two runs
\* have in common is answered in both at once, with the same response unless
\* nothing tells the runs apart so far; a call only one run has made is
\* answered in that run. The cache follows the first run.
Runs == {1, 2}

Other(r) == 3 - r

PairChannels == <<"chA", "chB">>

PairSubreddits == <<"subA", "subB">>

PairBodies == {Body("parents", "grow", Array(PairChannels), Array(PairSubreddits))}

PairListResponses ==
  { o \in ListResponses : o.ok /\ (o.kind = "neterr" \/ o.items = <<Item(TRUE, "t1")>>) }

PairResolveResponses ==
  { o \in ResolveResponses : o.kind = "neterr" \/ o.ids = <<"UC1">> }

PairTokenResponses ==
  { o \in OneTokenResponses : o.kind = "neterr" \/ Truthy(o.access_token) }

PairGeminiResponses == { o \in GeminiResponses : o.kind = "text" /\ o.ok }

SameUnlessAlike(o1, o2) == o1 = o2 \/ req[1] = req[2]

PairRequest(b) ==
  /\ \A r \in Runs : req[r].pc \in {"idle", "done"} /\ Quiescent(req[r])
  /\ req' = [req EXCEPT ![1] = Handle("POST", b, env, redditToken, now),
                        ![2] = Handle("POST", b, env, redditToken, now)]
  /\ UNCHANGED <<redditToken, now, env, exchanged>>

PairSearch(o1, o2) ==
  /\ \A r \in Runs : req[r].top.st = "pending"
  /\ SameUnlessAlike(o1, o2)
  /\ req' = [req EXCEPT ![1] = Resume(SearchAnswered(@, o1)),
                        ![2] = Resume(SearchAnswered(@, o2))]
  /\ UNCHANGED <<redditToken, now, env, exchanged>>

PairResolve(i, o1, o2) ==
  /\ \A r \in Runs : i \in 1..Len(req[r].chans) /\ req[r].chans[i].st = "resolving"
  /\ SameUnlessAlike(o1, o2)
  /\ req' = [req EXCEPT ![1] = Resume(ChannelResolved(@, i, o1)),
                        ![2] = Resume(ChannelResolved(@, i, o2))]
  /\ UNCHANGED <<redditToken, now, env, exchanged>>

PairList(i, o1, o2) ==
  /\ \A r \in Runs : i \in 1..Len(req[r].chans) /\ req[r].chans[i].st = "listing"
  /\ SameUnlessAlike(o1, o2)
  /\ req' = [req EXCEPT ![1] = Resume(VideosListed(@, i, o1)),
                        ![2] = Resume(VideosListed(@, i, o2))]
  /\ UNCHANGED <<redditToken, now, env, exchanged>>

LoneList(r, i, o) ==
  /\ ~(i \in 1..Len(req[Other(r)].chans) /\ req[Other(r)].chans[i].st # "done")
  /\ ListReturns(r, i, o)

PairToken(o1, o2) ==
  /\ \A r \in Runs : req[r].tok.st = "pending"
  /\ SameUnlessAlike(o1, o2)
  /\ redditToken' = CacheAfter(redditToken, o1, now)
  /\ req' = [req EXCEPT ![1] = Resume(TokenKnown(@, ExchangedToken(o1))),
                        ![2] = Resume(TokenKnown(@, ExchangedToken(o2)))]
  /\ exchanged' = IF ExchangedToken(o1) = Null THEN exchanged
                  ELSE [at |-> now, token |-> ExchangedToken(o1)]
  /\ UNCHANGED <<now, env>>

PairHot(j, o1, o2) ==
  /\ \A r \in Runs : j \in 1..Len(req[r].subs) /\ req[r].subs[j] = "pending"
  /\ SameUnlessAlike(o1, o2)
  /\ req' = [req EXCEPT ![1] = Resume(PostsListed(@, j, o1)),
                        ![2] = Resume(PostsListed(@, j, o2))]
  /\ UNCHANGED <<redditToken, now, env, exchanged>>

LoneHot(r, j, o) ==
  /\ ~(j \in 1..Len(req[Other(r)].subs) /\ req[Other(r)].subs[j] = "pending")
  /\ req[Other(r)].tok.st # "pending"
  /\ HotReturns(r, j, o)

NextPair ==
  \/ \E b \in PairBodies : PairRequest(b)
  \/ \E o1, o2 \in PairListResponses : PairSearch(o1, o2)
  \/ \E i \in 1..Len(PairChannels), o1, o2 \in PairResolveResponses : PairResolve(i, o1, o2)
  \/ \E i \in 1..Len(PairChannels), o1, o2 \in PairListResponses : PairList(i, o1, o2)
  \/ \E r \in Runs, i \in 1..Len(PairChannels), o \in PairListResponses : LoneList(r, i, o)
  \/ \E o1, o2 \in PairTokenResponses : PairToken(o1, o2)
  \/ \E j \in 1..Len(PairSubreddits), o1, o2 \in PairListResponses : PairHot(j, o1, o2)
  \/ \E r \in Runs, j \in 1..Len(PairSubreddits), o \in PairListResponses : LoneHot(r, j, o)
  \/ \E r \in Runs, o \in PairGeminiResponses : GeminiReturns(r, o)

SpecPair == Init /\ [][NextPair]_vars

\* ------------------------------------------------------------- the claims

\* The request of a frame passed the body validation and the environment check.
Admitted(f) == f.method = "POST" /\ ValidBody(f.body) /\ Configured(env)

\* C1: every POST request that passes the body validation and the environment
\* check reaches the Gemini call, whatever the external calls of the four
\* clients answer: it is answered only after that call has been made and has
\* answered, never because a client raised.
C1_CollectionNeverFails ==
  \A r \in Slots :
    (Admitted(req[r]) /\ req[r].pc = "done") =>
      /\ req[r].calls.gemini = 1
      /\ req[r].gen.st = "done"

\* C2: while a request collects and when it builds its prompt, the competitor
\* array has one element per requested channel and the reddit array, once a
\* token was obtained, one per requested subreddit; every settled element sits
\* at the position of its name in the request, whatever the order the calls
\* answered in; and when the prompt is built no element is missing.
C2_ResultsFollowInputOrder ==
  \A r \in Slots :
    LET f == req[r]
        channels == f.body.competitorYouTubeChannels.items
        subreddits == f.body.relevantSubreddits.items
    IN f.pc \in {"collecting", "generating"} =>
         /\ Len(f.competitor) = Len(channels)
         /\ \A i \in 1..Len(f.competitor) :
              f.competitor[i].set => f.competitor[i].name = channels[i]
         /\ Truthy(f.tok.val) =>
              /\ f.redditSt = "launched"
              /\ Len(f.reddit) = Len(subreddits)
              /\ \A j \in 1..Len(f.reddit) :
                   f.reddit[j].set => f.reddit[j].name = subreddits[j]
         /\ f.pc = "generating" => AllSettled(f.competitor) /\ AllSettled(f.reddit)

\* C2 witness: the second channel and the second subreddit answered before the
\* first ones, the channel with titles and the subreddit with none.
C2_SecondAnsweredFirst ==
  \E r \in Slots :
    LET f == req[r] IN
      /\ f.pc = "collecting"
      /\ Len(f.competitor) = 2 /\ Len(f.reddit) = 2
      /\ ~f.competitor[1].set /\ f.competitor[2].set /\ f.competitor[2].titles # <<>>
      /\ ~f.reddit[1].set /\ f.reddit[2].set /\ f.reddit[2].titles = <<>>

\* A request arrives in slot r: the step of Request.
Arrives(r) ==
  /\ req[r].pc \in {"idle", "done"}
  /\ Quiescent(req[r])
  /\ req'[r] # req[r]

\* Fifty minutes, in milliseconds.
FiftyMinutes == 3000000

\* C3: when a request asks for the token while the cache holds the token of an
\* exchange that succeeded at time T, a request arriving before T + 50 minutes
\* is given that very token and starts no exchange, and a request arriving at
\* T + 50 minutes or later starts a new exchange.
C3_CacheExpiry ==
  [][\A r \in Slots :
       (Arrives(r) /\ req'[r].tok.st # "none" /\ exchanged.token # Null) =>
         IF now < exchanged.at + FiftyMinutes
         THEN /\ req'[r].tok = [st |-> "done", val |-> exchanged.token]
              /\ req'[r].calls.token = 0
              /\ redditToken' = redditToken
         ELSE /\ req'[r].tok.st = "pending"
              /\ req'[r].calls.token = 1]_vars

\* C3 witness: a request that arrived in the last millisecond before the expiry
\* of a token exchanged earlier was given that token without an exchange.
C3_ReusedInLastMillisecond ==
  \E r \in Slots :
    /\ req[r].pc = "collecting"
    /\ exchanged.token # Null
    /\ req[r].at = exchanged.at + FiftyMinutes - 1
    /\ req[r].tok = [st |-> "done", val |-> exchanged.token]
    /\ req[r].calls.token = 0

\* C4: a token exchange that ends without a token for the handler (a network
\* error, an unparseable or null body, a body without access_token) leaves the
\* cached token and its expiry as they were.
C4_FailedExchangeKeepsCache ==
  [][\A r \in Slots :
       (req[r].tok.st = "pending" /\ req'[r].tok = [st |-> "done", val |-> Null]) =>
         redditToken' = redditToken]_vars

\* C4 witness: an exchange started because the cached token had expired has
\* failed, and the expired token is still in the cache.
C4_FailedWithStaleToken ==
  \E r \in Slots :
    /\ req[r].tok = [st |-> "done", val |-> Null]
    /\ req[r].calls.token = 1
    /\ redditToken.value # Null
    /\ redditToken.expires <= req[r].at

\* C5: in the prompt, each of the three data blocks is the placeholder "N/A"
\* whenever no title was collected for it, also when channels or subreddits
\* were requested and every one of them came back empty.
C5_PlaceholderForEveryEmptyCategory ==
  \A r \in Slots :
    LET f == req[r] IN
    f.pc = "generating" =>
      /\ f.top.val = <<>> => f.gen.prompt.top = <<"N/A">>
      /\ (\A i \in 1..Len(f.competitor) : f.competitor[i].titles = <<>>)
           => f.gen.prompt.competitor = <<"N/A">>
      /\ (\A j \in 1..Len(f.reddit) : f.reddit[j].titles = <<>>)
           => f.gen.prompt.reddit = <<"N/A">>

\* The body has no audience or no goal, or one of its two lists is not an array.
Lacks(b) ==
  \/ b.audience = Null
  \/ b.goal = Null
  \/ ~b.competitorYouTubeChannels.isArray
  \/ ~b.relevantSubreddits.isArray

\* C6: a POST request whose body has no audience or no goal, or whose
\* competitorYouTubeChannels or relevantSubreddits is not an array, is answered
\* 400 in the turn it arrives, has issued no external call and has none
\* outstanding, and the token cache is as it was.
C6_InvalidBodyIs400 ==
  [][\A r \in Slots :
       (Arrives(r) /\ req'[r].method = "POST" /\ Lacks(req'[r].body)) =>
         /\ req'[r].pc = "done"
         /\ req'[r].resp.status = 400
         /\ req'[r].calls = NoCalls
         /\ Quiescent(req'[r])
         /\ redditToken' = redditToken]_vars

\* C6 witness: a request with audience, goal and a channel array but no
\* subreddit array was answered 400 without a call.
C6_NotAnArrayRejected ==
  \E r \in Slots :
    /\ req[r].resp.status = 400
    /\ req[r].body.audience = "parents" /\ req[r].body.goal = "grow"
    /\ req[r].body.competitorYouTubeChannels.isArray
    /\ ~req[r].body.relevantSubreddits.isArray
    /\ req[r].calls = NoCalls

\* C7: a POST request with a valid body that arrives while one of the four
\* environment credentials is missing is answered 500 with the configuration
\* error in the turn it arrives, has issued no external call and has none
\* outstanding, and the token cache is as it was.
C7_MissingCredentialIs500 ==
  [][\A r \in Slots :
       (Arrives(r) /\ req'[r].method = "POST" /\ ~Lacks(req'[r].body)
          /\ Truthy(req'[r].body.audience) /\ Truthy(req'[r].body.goal)
          /\ env # EnvKeys) =>
         /\ req'[r].pc = "done"
         /\ req'[r].resp = Response(500, Null, "Server configuration error.", Null)
         /\ req'[r].calls = NoCalls
         /\ Quiescent(req'[r])
         /\ redditToken' = redditToken]_vars

\* C7 witness: with the Gemini key missing, a request with a valid body was
\* answered with the configuration error without a call.
C7_ConfigurationErrorSent ==
  \E r \in Slots :
    /\ "GEMINI_API_KEY" \notin env
    /\ req[r].method = "POST" /\ ValidBody(req[r].body)
    /\ req[r].resp = Response(500, Null, "Server configuration error.", Null)
    /\ req[r].calls = NoCalls

\* C8: a request whose token acquisition handed it no token issues no hot
\* listing call, has the empty sequence as its reddit data, renders "N/A" as
\* the reddit block of its prompt, and still reaches the Gemini call.
C8_NoTokenNoCommunityCalls ==
  \A r \in Slots :
    LET f == req[r] IN
    (Admitted(f) /\ f.tok = [st |-> "done", val |-> Null]) =>
      /\ f.calls.hot = 0
      /\ f.reddit = <<>>
      /\ f.pc = "generating" => f.gen.prompt.reddit = <<"N/A">>
      /\ f.pc = "done" => f.calls.gemini = 1

\* C9: a request that passed both checks is answered 500 only after its Gemini
\* call failed, then with an error and a details field; and a Gemini answer
\* without a text payload is never passed on as a 200.
C9_OnlyGenerationFailureIs500 ==
  \A r \in Slots :
    LET f == req[r] IN
    (Admitted(f) /\ f.pc = "done") =>
      /\ f.resp.status = 500 =>
           f.gen.st = "done" /\ f.resp.error # Null /\ f.resp.details # Null
      /\ f.resp.status = 200 => f.resp.body # Null

\* C10: a request that passed both checks calls Gemini exactly once, with the
\* prompt built from its collected data, and is answered 200 or 500 by what
\* that call returned.
C10_GeneratorCalledOnce ==
  \A r \in Slots :
    LET f == req[r] IN
    Admitted(f) =>
      /\ f.pc = "generating" => f.calls.gemini = 1 /\ f.gen.prompt = masterPrompt(f)
      /\ f.pc = "collecting" => f.calls.gemini = 0
      /\ f.pc = "done" => f.calls.gemini = 1 /\ f.resp.status \in {200, 500}


\* C11: an admitted request with an empty competitorYouTubeChannels list makes
\* no channel call and has an empty competitor result, and one with an empty
\* relevantSubreddits list makes no call for the Reddit branch, neither a
\* listing nor a token exchange, whatever the token cache holds, and has an
\* empty Reddit result.
C11_EmptyListMakesNoCall ==
  \A r \in Slots :
    LET f == req[r] IN
    (Admitted(f) /\ f.pc \in {"collecting", "generating"}) =>
      /\ (f.body.competitorYouTubeChannels.items = <<>>) =>
           (f.calls.resolve = 0 /\ f.calls.list = 0 /\ f.competitor = <<>>)
      /\ (f.body.relevantSubreddits.items = <<>>) =>
           (f.calls.token = 0 /\ f.calls.hot = 0 /\ f.reddit = <<>>)


\* The requests whose token exchange is outstanding.
Exchanging == { r \in Slots : req[r].tok.st = "pending" }

\* C13 (as claimed): however many requests race to refresh the token cache,
\* the race costs at most one exchange call more than the single call made
\* without it: at most two exchanges are outstanding at once.
C13_RaceCostsOneCall == Cardinality(Exchanging) <= 2

\* C13 (amended): every request makes at most one exchange call, the one
\* outstanding while it waits for its token, so requests racing to refresh the
\* cache make one exchange call each and no more.
C13_OneExchangePerRequest ==
  \A r \in Slots :
    /\ req[r].calls.token <= 1
    /\ (req[r].tok.st = "pending") => (req[r].calls.token = 1)

C13_TwoRefreshAtOnce ==
  \E r, q \in Slots :
    /\ r # q
    /\ {r, q} \subseteq Exchanging
    /\ req[r].calls.token = 1
    /\ req[q].calls.token = 1


\* C14: a request of method OPTIONS is answered 204 and one of any other
\* method than POST 405, in the turn it arrives; whatever body it carries is
\* not read, no external call is issued or outstanding, and the token cache is
\* as it was.
C14_OtherMethodsAnsweredAtOnce ==
  [][\A r \in Slots :
       (Arrives(r) /\ req'[r].method # "POST") =>
         /\ req'[r].pc = "done"
         /\ req'[r].resp = IF req'[r].method = "OPTIONS"
                           THEN Response(204, Null, Null, Null)
                           ELSE Response(405, Null, "Method Not Allowed", Null)
         /\ req'[r].body = NoBody
         /\ req'[r].calls = NoCalls
         /\ Quiescent(req'[r])
         /\ redditToken' = redditToken]_vars

\* C14 witness: a GET request was answered 405 without a call.
C14_MethodNotAllowedSent ==
  \E r \in Slots :
    /\ req[r].method = "GET"
    /\ req[r].resp.status = 405
    /\ req[r].calls = NoCalls


\* C15: the prompt is built and the Gemini call is issued only once the video
\* search, both calls of every channel, the token acquisition and every
\* subreddit listing of the request have resolved: while the Gemini call of a
\* request is outstanding, none of its other calls is.
C15_GeneratorAfterAllResolved ==
  \A r \in Slots :
    LET f == req[r] IN
    (f.gen.st = "pending" \/ f.pc = "generating") =>
      /\ f.top.st = "done"
      /\ \A i \in 1..Len(f.chans) : f.chans[i].st = "done"
      /\ f.tok.st = "done"
      /\ \A j \in 1..Len(f.subs) : f.subs[j] = "done"

\* C15 witness: the Gemini call is outstanding after a token exchange, a
\* channel's two calls and a subreddit listing.
C15_GeneratorCalledAfterEveryKind ==
  \E r \in Slots :
    /\ req[r].gen.st = "pending"
    /\ req[r].calls.search = 1
    /\ req[r].calls.list >= 1
    /\ req[r].calls.token = 1
    /\ req[r].calls.hot >= 1


\* The titles of a list of { title } records are all present.
AllTitled(titles) == \A k \in 1..Len(titles) : titles[k] # Null

\* C16: every { title } record a client returns has a title that is present
\* and not null: an item without a title gives no record, in the video search
\* result, in every channel's list and in every subreddit's list.
C16_EveryRecordHasTitle ==
  \A r \in Slots :
    LET f == req[r] IN
    /\ AllTitled(f.top.val)
    /\ \A i \in 1..Len(f.competitor) : AllTitled(f.competitor[i].titles)
    /\ \A j \in 1..Len(f.reddit) : AllTitled(f.reddit[j].titles)


\* The channel ids that come first in a response of the channel search.
FirstMatches == { o.ids[1] : o \in { x \in ResolveResponses : Len(x.ids) > 0 } }

\* The channels of a frame whose channel search was started.
Searched(f) ==
  { i \in 1..Len(f.chans) : WellFormed(f.body.competitorYouTubeChannels.items[i]) }

\* The channels of a frame whose videos call was started.
Listed(f) == { i \in 1..Len(f.chans) : f.chans[i].channelId # Null }

\* C17: the two calls of a channel follow one another: while the channel
\* search is outstanding no videos call has been made for the channel; a videos
\* call is for the id of the first match of the channel search; a channel
\* whose search found no match or failed has an empty list and no videos call;
\* and the request has made one channel search per channel at most and one
\* videos call per matched channel, so two calls per channel at most.
C17_ChannelCallsInSequence ==
  \A r \in Slots :
    LET f == req[r] IN
    (f.pc \in {"collecting", "generating"} \/ ~Quiescent(f)) =>
      /\ \A i \in 1..Len(f.chans) :
           /\ (f.chans[i].st = "resolving") =>
                (i \in Searched(f) /\ f.chans[i].channelId = Null /\ ~f.competitor[i].set)
           /\ (f.chans[i].st = "listing") =>
                (i \in Searched(f) /\ f.chans[i].channelId \in FirstMatches
                   /\ ~f.competitor[i].set)
           /\ (f.chans[i].st = "done" /\ i \notin Listed(f) /\ f.pc # "done") =>
                f.competitor[i] = Entry(f.body.competitorYouTubeChannels.items[i], <<>>)
      /\ Listed(f) \subseteq Searched(f)
      /\ f.calls.resolve = Cardinality(Searched(f))
      /\ f.calls.list = Cardinality(Listed(f))

\* C17 witness: of two channels, one was listed after its search matched and
\* the other settled with an empty list after its search found nothing.
C17_OneListedOneNotFound ==
  \E r \in Slots :
    /\ req[r].pc = "generating"
    /\ Len(req[r].chans) = 2
    /\ req[r].calls.resolve = 2
    /\ req[r].calls.list = 1
    /\ req[r].chans[1].channelId = Null
    /\ req[r].chans[2].channelId \in FirstMatches
    /\ req[r].competitor[2].titles # <<>>


\* The statuses the handler answers with.
Statuses == {204, 405, 400, 500, 200}

\* C18: a request is answered once, with one of the five statuses, and only
\* when none of its external calls is outstanding: the handler has no timeout
\* and no cancellation, so a request with a call that never answers is never
\* answered.
C18_AnsweredOnlyWhenNothingOutstanding ==
  \A r \in Slots :
    LET f == req[r] IN
    /\ (f.pc = "done") <=> (f.resp # NoResponse)
    /\ (f.resp # NoResponse) => (f.resp.status \in Statuses /\ Quiescent(f))


\* C19: the subreddit listings of a request are started with the token the
\* cache holds at that moment, whose expiry is later than the current time; a
\* request that asks for the token when the cached expiry has passed is not
\* given the cached token but starts an exchange; an exchange that fails
\* leaves the cache as it was, stale token included, and hands the request no
\* token; and the cache changes only by taking a new token together with the
\* expiry fifty minutes from now.
C19_NoExpiredTokenHandedOut ==
  [][\A r \in Slots :
       /\ (req[r].redditSt # "launched" /\ req'[r].redditSt = "launched") =>
            /\ req'[r].tok = [st |-> "done", val |-> redditToken'.value]
            /\ redditToken'.value # Null
            /\ redditToken'.expires > now
       /\ (Arrives(r) /\ req'[r].tok.st # "none" /\ redditToken.expires <= now) =>
            /\ req'[r].tok = [st |-> "pending", val |-> Null]
            /\ req'[r].calls.token = 1
            /\ req'[r].calls.hot = 0
       /\ (req[r].tok.st = "pending" /\ req'[r].tok = [st |-> "done", val |-> Null]) =>
            /\ redditToken' = redditToken
            /\ req'[r].redditSt = "skipped"
            /\ req'[r].calls.hot = 0
       /\ (redditToken' # redditToken) =>
            /\ redditToken'.value \in Tokens
            /\ redditToken'.expires = now + FiftyMinutes]_vars

\* C19 witness: a request that arrived fifty minutes or more after the start
\* had to exchange; its exchange answered at a later time and its listing was
\* started with the new token, which the cache holds with an expiry fifty
\* minutes from that time.
C19_RefreshedAfterStale ==
  \E r \in Slots :
    /\ req[r].redditSt = "launched"
    /\ req[r].calls.token = 1
    /\ req[r].calls.hot = 1
    /\ req[r].at >= FiftyMinutes
    /\ req[r].tok.val = "tokB"
    /\ redditToken = [value |-> "tokB", expires |-> now + FiftyMinutes]
    /\ now > req[r].at


\* The adapters whose state or result tells two frames apart: the video
\* search, a channel, the token (and with it the whole Reddit branch) or, the
\* token being the same, a subreddit.
Apart(f, g) ==
  (IF f.top # g.top THEN {<<"search", 0>>} ELSE {})
  \cup { <<"channel", i>> : i \in { k \in 1..Len(PairChannels) :
                                      f.chans[k] # g.chans[k] \/ f.competitor[k] # g.competitor[k] } }
  \cup (IF f.tok # g.tok \/ f.redditSt # g.redditSt THEN {<<"token", 0>>}
        ELSE { <<"subreddit", j>> : j \in { k \in 1..Len(f.subs) :
                                              f.subs[k] # g.subs[k] \/ f.reddit[k] # g.reddit[k] } })

\* Both runs are between the arrival of the request and the Gemini answer.
BothCollected ==
  \A r \in Runs : req[r].pc \in {"collecting", "generating"} /\ req[r].body \in PairBodies

\* C12: two runs of the same request whose external responses differ for one
\* adapter call only differ in the result of that adapter only: a video search,
\* a channel or a subreddit that fails leaves every other result as it is in
\* the other run, and a token exchange that fails changes the Reddit result
\* only.
C12_OtherAdaptersUnchanged ==
  BothCollected =>
    /\ Cardinality(Apart(req[1], req[2])) <= 1
    /\ (req[1].tok # req[2].tok) =>
         (req[1].top = req[2].top /\ req[1].competitor = req[2].competitor)

\* C12 witness: the token exchange failed in one run only, and the two runs
\* have the same titles from the video search and from a channel while only
\* the other run has titles from a subreddit.
C12_TokenFailedInOneRun ==
  /\ BothCollected
  /\ req[1].tok.val = "tokA"
  /\ req[2].tok = [st |-> "done", val |-> Null]
  /\ req[1].top = req[2].top
  /\ req[1].top.val # <<>>
  /\ req[1].competitor = req[2].competitor
  /\ \E i \in 1..Len(PairChannels) : req[1].competitor[i].titles # <<>>
  /\ \E j \in 1..Len(PairSubreddits) : req[1].reddit[j].titles # <<>>
  /\ req[2].reddit = <<>>

====
